---------------------------- MODULE Spec2Model ----------------------------
(***************************************************************************)
(* The audio pipeline of one /ws/audio connection of src/src/index.ts      *)
(* (the Google STT + Gemini + Google TTS server, lines 1-335): the frame   *)
(* handler, the idle timer, and processAudio with every await of it as a   *)
(* separate step.                                                          *)
(*                                                                         *)
(* Text is a sequence of one-character strings.  The characters the code   *)
(* tells apart are the sentence terminators of the regular expression at   *)
(* line 194 and the white space String.prototype.trim removes.             *)
(***************************************************************************)
EXTENDS Naturals, Sequences, FiniteSets

(***************************************************************************)
(* Bounds of the model.                                                    *)
(***************************************************************************)
\* frames that may sit in audioChunks before the environment stops sending
MaxPending == 2
\* pipeline runs that pass the minimum-length test, per connection
MaxRuns == 2
\* activation records of processAudio that may exist at once
MaxOverlap == 2
\* characters of one model reply, however it is cut into chunks (Spec)
MaxText == 1
\* the same where one reply is followed on its own (ReplySpec)
ReplyMaxText == 4
\* the most turns a stored history has where the history window is followed
\* on its own (HistSpec)
MaxHistory == 12
\* the most bytes of a PCM sequence wrapped in a container (WavSpec)
MaxPcmLen == 4
\* the most replies the server sends to the bot page, and the most sentences
\* of one reply (ClientSpec)
MaxReplies == 2
MaxSentences == 2
\* how far the clock runs, in ticks, and the most tokens the credential
\* provider issues (TokenSpec)
MaxClock == 5
MaxTokens == 2
\* the most frames pending on a connection and the most runs it starts,
\* when several connections are followed together (ConnSpec)
MaxConnPending == 1
MaxConnRuns == 1
\* the same for a connection followed on its own (TimerSpec)
MaxTimerPending == 2
MaxTimerRuns == 2
\* the most reconnects of the bot page and the most sample blocks its
\* microphone delivers (CaptureSpec)
MaxReconnects == 2
MaxBlocks == 2
\* the most calls of initializeSession and destroySession in progress at
\* once, and the most avatar sessions created (AgentSpec)
MaxTasks == 2
MaxSessions == 3

(***************************************************************************)
(* Program constants.                                                      *)
(***************************************************************************)
\* index.ts:140  if (audioBuffer.length < 16000)
MinAudioBytes == 16000
\* index.ts:277  if (totalBytes > 320000)
HighWaterMark == 320000
\* index.ts:174  conversationHistory.slice(-10)
HistoryWindow == 10
\* index.ts:301  Buffer.alloc(44 + dataSize); index.ts:212  slice(44)
WavHeaderBytes == 44
\* index.ts:46  pcm16ToWav(audioBuffer, 16000)
SampleRate == 16000
\* index.ts:37  tokenExpiresAt = now + 3500 * 1000
ExpiryMs == 3500000
\* the step of the clock: half of ExpiryMs, so that the clock reaches an
\* expiry exactly
TickMs == 1750000

\* byte lengths of the inbound frames the environment sends
FrameBytes == {8000, 200000}

\* stand-ins for U+3002, U+FF01, U+FF1F (index.ts:194); the line break is itself
KUTEN == "K"
EXCLAMATION == "E"
QUESTION == "Q"
LF == "\n"
SP == " "
Terminators == {KUTEN, EXCLAMATION, QUESTION, LF}
\* what String.prototype.trim strips, as far as the alphabet below has it
WhiteSpace == {SP, LF, "\t", "\r"}
\* the characters model replies are made of: in ReplySpec, and in Spec
Chars == {"x", KUTEN, LF, SP}
SpecChars == {"x", KUTEN}
\* non-empty transcripts the recognizer may return
Transcripts == {<<"u">>}
\* index.ts:237
Apology == <<"s", "u", "m", "i", "m", "a", "s", "e", "n">>

Slots == 1..MaxOverlap

VARIABLES
    audioChunks,          \* index.ts:129, each frame [len, echo]
    isProcessing,         \* index.ts:130
    processTimeout,       \* index.ts:131: "null", "pending", or "stale"
                          \* (a handle whose timer has fired or was cleared)
    conversationHistory,  \* index.ts:128
    run,                  \* activation records of processAudio, by slot
    sent,                 \* messages sent on clientWs since the latest run
                          \* began, each tagged with its run
    runCount,             \* runs that reached the recognizer so far
    last,                 \* what the run that returned last left behind,
                          \* until the next run begins
    transport,            \* clientWs: "open" or "closed"
    pcmData,              \* index.ts:294: the bytes handed to pcm16ToWav
    wavBuffer,            \* index.ts:46: the container it returned
    isSpeaking,           \* part_004:25, the bot page's state.isSpeaking
    audioQueue,           \* part_004:26, the ids of the chunks queued
    isPlaying,            \* part_004:27
    audioStreamDone,      \* part_004:28
    source,               \* part_004:380: the chunk whose buffer source is
                          \* playing, 0 when none is
    played,               \* the chunks whose playback was started, in order
    wire,                 \* messages the server has sent that the page has
                          \* not handled yet
    script,               \* messages the server's run in flight has yet to
                          \* send
    heard,                \* the page has sent audio the server has not
                          \* started a run for
    replies,              \* runs the server has started for the page
    chunkCount,           \* audio messages the server has sent to the page
    inReply,              \* the page has received an audio message of a
                          \* reply and not yet the message that ends it
    cachedAccessToken,    \* index.ts:25
    tokenExpiresAt,       \* index.ts:26
    now,                  \* Date.now()
    call,                 \* the getAccessToken call of each connection's
                          \* pipeline: where it is, and its local `now`
    wrote,                \* the refresh that assigned the cache last: its
                          \* start and the token it obtained
    issued,               \* tokens the credential provider has issued
    conn,                 \* index.ts:128-131: the state of each connection
                          \* of the server, when several are open
    socket,               \* part_004:233, state.ws: "connecting", "open",
                          \* or "closed" with the reconnect timer set
    isConnected,          \* part_004:24
    capture,              \* part_004:315: the audioBuffer of each capture
                          \* pipeline startAudioCapture has set up, holding
                          \* the numbers of the sample blocks not yet sent
    block,                \* sample blocks the microphone has delivered
    uplink,               \* the sample blocks sent to the server, in order
    reconnects,           \* times the page has connected again
    sessions,             \* agent.ts:209: the entries of the session map in
                          \* the order of their insertion, each an id and the
                          \* number of the session stored under it
    keepAlive,            \* the sessions whose keep-alive timer is running
    task,                 \* the calls of initializeSession and
                          \* destroySession in progress
    created               \* avatar sessions created so far

wavVars == <<pcmData, wavBuffer>>

pageVars == <<isSpeaking, audioQueue, isPlaying, audioStreamDone, source>>

clientVars ==
    <<pageVars, played, wire, script, heard, replies, chunkCount, inReply>>

tokenVars == <<cachedAccessToken, tokenExpiresAt, now, call, wrote, issued>>

serverVars == <<tokenVars, conn>>

captureVars == <<socket, isConnected, capture, block, uplink, reconnects>>

agentVars == <<sessions, keepAlive, task, created>>

\* what lies outside the connection's handlers and pipeline run
elsewhere == <<wavVars, clientVars, serverVars, captureVars, agentVars>>

vars == <<audioChunks, isProcessing, processTimeout, conversationHistory,
          run, sent, runCount, last, transport, elsewhere>>

(***************************************************************************)
(* Text helpers.                                                           *)
(***************************************************************************)
RECURSIVE SeqsUpTo(_, _)
SeqsUpTo(S, n) ==
    IF n = 0 THEN {<<>>}
    ELSE LET shorter == SeqsUpTo(S, n - 1)
         IN  shorter \cup {Append(t, c) : t \in shorter, c \in S}

\* String.prototype.trim
RECURSIVE TrimStart(_)
TrimStart(t) ==
    IF t # <<>> /\ Head(t) \in WhiteSpace THEN TrimStart(Tail(t)) ELSE t

RECURSIVE TrimEnd(_)
TrimEnd(t) ==
    IF t # <<>> /\ t[Len(t)] \in WhiteSpace
    THEN TrimEnd(SubSeq(t, 1, Len(t) - 1)) ELSE t

Trim(t) == TrimEnd(TrimStart(t))

\* index.ts:194  sentenceBuffer.match(/^(.*?[。！？\n])(.*)/s): the position of
\* the first terminator, 0 when the match fails
MatchEnd(buf) ==
    LET hits == {i \in 1..Len(buf) : buf[i] \in Terminators}
    IN  IF hits = {} THEN 0 ELSE CHOOSE i \in hits : \A j \in hits : i <= j

\* sentenceMatch[1]
MatchSentence(buf) == SubSeq(buf, 1, MatchEnd(buf))

\* a slip that loses the character after the terminator
MatchRestOffByOne(buf) == SubSeq(buf, MatchEnd(buf) + 2, Len(buf))

\* sentenceMatch[2]
MatchRest(buf) == SubSeq(buf, MatchEnd(buf) + 1, Len(buf))

(***************************************************************************)
(* Messages (index.ts:160, 205, 207, 214, 242, 253).                       *)
(***************************************************************************)
TranscriptMsg(t) == [type |-> "transcript", speaker |-> "user", text |-> t]
ResponseMsg(t) == [type |-> "response", text |-> t]
ResponseAppendMsg(t) == [type |-> "response_append", text |-> t]
AudioMsg == [type |-> "audio", data |-> "pcm"]
AudioDoneMsg == [type |-> "audio_done"]
ErrorMsg == [type |-> "error", message |-> "Processing failed"]

Send(log, id, m) == Append(log, [run |-> id, msg |-> m])

\* a slip that sends every sentence as a new reply
TextMsgAlwaysResponse(idx, sentence) == ResponseMsg(sentence)

\* index.ts:204-208 and 225-229
TextMsg(idx, sentence) ==
    IF idx = 1 THEN ResponseMsg(sentence) ELSE ResponseAppendMsg(sentence)

(***************************************************************************)
(* Audio helpers.                                                          *)
(***************************************************************************)
RECURSIVE TotalBytes(_)
\* index.ts:276  audioChunks.reduce((sum, c) => sum + c.length, 0)
TotalBytes(chunks) ==
    IF chunks = <<>> THEN 0 ELSE Head(chunks).len + TotalBytes(Tail(chunks))

IdleRun ==
    [pc |-> "idle", id |-> 0, audioBuffer |-> <<>>, userText |-> <<>>,
     history |-> <<>>, sentenceBuffer |-> <<>>, fullResponse |-> <<>>,
     sentenceIndex |-> 0]

\* no container has been built
WavIdle == pcmData = <<>> /\ wavBuffer = <<>>

\* part_004:20-30: the bot page as loaded, nothing sent either way
ClientIdle ==
    /\ isSpeaking = FALSE
    /\ audioQueue = <<>>
    /\ isPlaying = FALSE
    /\ audioStreamDone = FALSE
    /\ source = 0
    /\ played = <<>>
    /\ wire = <<>>
    /\ script = <<>>
    /\ heard = FALSE
    /\ replies = 0
    /\ chunkCount = 0
    /\ inReply = FALSE

\* index.ts:125: the connections whose pipelines share the process
Conns == {"A", "B"}

NoToken == [kind |-> "null", id |-> 0]

NoCall == [pc |-> "idle", now |-> 0, token |-> NoToken, hit |-> FALSE]

\* index.ts:25-26 as the module is loaded, at a time after the epoch
TokenIdle ==
    /\ cachedAccessToken = NoToken
    /\ tokenExpiresAt = 0
    /\ now = TickMs
    /\ call = [c \in Conns |-> NoCall]
    /\ wrote = [by |-> "none", now |-> 0, token |-> NoToken]
    /\ issued = 0

\* index.ts:128-131, and the socket just accepted
NewConn ==
    [audioChunks |-> 0, isProcessing |-> FALSE, processTimeout |-> "null",
     conversationHistory |-> 0, sent |-> 0, open |-> TRUE, pc |-> "idle",
     runs |-> 0, armed |-> 0]

ServerIdle == TokenIdle /\ conn = [c \in Conns |-> NewConn]

\* part_004:20-30 and 447-451: the page has called connectToServer
CaptureIdle ==
    /\ socket = "connecting"
    /\ isConnected = FALSE
    /\ capture = <<>>
    /\ block = 0
    /\ uplink = <<>>
    /\ reconnects = 0

\* agent.ts:383, 447: the ids sessions are kept under, and the calls that
\* may be in progress at once
Ids == {"a", "b"}
Tasks == 1..MaxTasks

NoTask == [op |-> "none", id |-> "a", pc |-> "idle", todo |-> <<>>,
           victim |-> "a"]

\* agent.ts:209 as the module is loaded
AgentIdle ==
    /\ sessions = <<>>
    /\ keepAlive = {}
    /\ task = [t \in Tasks |-> NoTask]
    /\ created = 0

ElsewhereIdle ==
    WavIdle /\ ClientIdle /\ ServerIdle /\ CaptureIdle /\ AgentIdle

NoRun ==
    [id |-> 0, outcome |-> "none", userText |-> <<>>, fullResponse |-> <<>>,
     dropped |-> 0]

Active == {s \in Slots : run[s].pc # "idle"}

\* the system is producing a reply: a run has sent its first reply message
Replying == \E s \in Active : run[s].sentenceIndex >= 1

Init ==
    /\ audioChunks = <<>>
    /\ isProcessing = FALSE
    /\ processTimeout = "null"
    /\ conversationHistory = <<>>
    /\ run = [s \in Slots |-> IdleRun]
    /\ sent = <<>>
    /\ runCount = 0
    /\ last = NoRun
    /\ transport = "open"
    /\ ElsewhereIdle


(***************************************************************************)
(* processAudio, index.ts:133-257.                                         *)
(***************************************************************************)
\* the guard without the busy flag
CanStartIgnoringBusy(chunks) == Len(chunks) # 0

\* index.ts:134  if (audioChunks.length === 0 || isProcessing) return;
CanStart(chunks) == Len(chunks) # 0 /\ ~isProcessing

\* a slip that leaves the flushed audio in the buffer
TakeChunksKeeps(chunks) == chunks

\* index.ts:137  audioChunks = [];  (after Buffer.concat took the chunks)
TakeChunks(chunks) == <<>>

\* a slip that drops the minimum-length check
TooShortNever(chunks) == FALSE

\* index.ts:140  if (audioBuffer.length < 16000)
TooShort(chunks) == TotalBytes(chunks) < MinAudioBytes

FreeSlot ==
    CHOOSE s \in Slots :
        /\ run[s].pc = "idle"
        /\ \A t \in Slots : run[t].pc = "idle" => s <= t

\* index.ts:133-151: processAudio called when the buffer holds `chunks`, up
\* to its first await (the call of transcribeSpeech)
ProcessAudioFrom(chunks) ==
    IF ~CanStart(chunks)
    THEN /\ audioChunks' = chunks
         /\ UNCHANGED <<isProcessing, run, runCount, sent, last>>
    ELSE IF TooShort(chunks)
    THEN /\ audioChunks' = TakeChunks(chunks)
         /\ isProcessing' = FALSE
         /\ UNCHANGED <<run, runCount, sent, last>>
    ELSE /\ runCount < MaxRuns
         /\ \E s \in Slots : run[s].pc = "idle"
         /\ sent' = IF Active = {} THEN <<>> ELSE sent
         /\ last' = IF Active = {} THEN NoRun ELSE last
         /\ audioChunks' = TakeChunks(chunks)
         /\ isProcessing' = TRUE
         /\ runCount' = runCount + 1
         /\ run' = [run EXCEPT ![FreeSlot] =
                       [IdleRun EXCEPT !.pc = "stt", !.id = runCount + 1,
                                       !.audioBuffer = chunks]]

\* the run in slot s returns
Return(s, outcome, dropped) ==
    /\ run' = [run EXCEPT ![s] = IdleRun]
    /\ last' = [id |-> run[s].id, outcome |-> outcome,
                userText |-> run[s].userText,
                fullResponse |-> run[s].fullResponse, dropped |-> dropped]

\* a slip that sends the completion signal after the try/catch
OnErrorAlsoDone(log, id) == Send(Send(log, id, ErrorMsg), id, AudioDoneMsg)

\* a slip that reports the failure where it is thrown and again in the catch
OnErrorTwice(log, id) == Send(Send(log, id, ErrorMsg), id, ErrorMsg)

\* index.ts:253
OnError(log, id) == Send(log, id, ErrorMsg)

\* a slip that releases the busy flag inside the try block only
AfterCatchKeepsBusy(busy) == busy

\* index.ts:256  isProcessing = false;  (after the try/catch)
AfterCatch(busy) == FALSE

\* index.ts:251-256: the catch block, then the release of the busy flag
Catch(s) ==
    /\ sent' = OnError(sent, run[s].id)
    /\ isProcessing' = AfterCatch(isProcessing)
    /\ Return(s, "error", 0)
    /\ UNCHANGED <<audioChunks, processTimeout, conversationHistory,
                   transport, elsewhere, runCount>>

\* a slip that keeps the audio buffered during the reply
DiscardEchoKeeps(chunks) == chunks

\* index.ts:245  audioChunks = [];
DiscardEcho(chunks) == <<>>

\* a slip that ends a reply without its completion signal
OnDoneSilent(log, id) == log

\* index.ts:242
OnDone(log, id) == Send(log, id, AudioDoneMsg)

\* a slip that commits the reply as it is, empty or not
AiTextNoFallback(full) == full

\* index.ts:237  const aiText = fullResponse || '...';
AiText(full) == IF full # <<>> THEN full ELSE Apology

\* a slip that commits the reply without the utterance it answers
TurnsModelOnly(userText, aiText) == <<[role |-> "model", text |-> aiText]>>

\* index.ts:240-241: the two turns pushed onto conversationHistory
Turns(userText, aiText) ==
    << [role |-> "user", text |-> userText],
       [role |-> "model", text |-> aiText] >>

\* index.ts:237-256: the end of a reply whose stream drained; `log` is what
\* has been sent so far
Finalize(s, log) ==
    LET aiText == AiText(run[s].fullResponse)
    IN  /\ conversationHistory' =
               conversationHistory \o Turns(run[s].userText, aiText)
        /\ sent' = OnDone(log, run[s].id)
        /\ audioChunks' = DiscardEcho(audioChunks)
        /\ processTimeout' = "null"
        /\ isProcessing' = FALSE
        /\ Return(s, "done", Len(audioChunks))
        /\ UNCHANGED <<runCount, transport, elsewhere>>

\* a slip that does not wait for the synthesizer before reading on
AwaitSynthNot(final) == "stream"

\* index.ts:211 and 231: where the run waits after sending a sentence's text
AwaitSynth(final) == IF final THEN "tts_final" ELSE "tts"

\* index.ts:199-211 and 221-231: one sentence unit: its text message, then
\* the call of synthesizeSpeech
EmitSentence(s, sentence, buf, full, final) ==
    LET idx == run[s].sentenceIndex + 1
    IN  /\ sent' = Send(sent, run[s].id, TextMsg(idx, sentence))
        /\ run' = [run EXCEPT ![s].pc = AwaitSynth(final),
                              ![s].sentenceIndex = idx,
                              ![s].sentenceBuffer = buf,
                              ![s].fullResponse = full]
        /\ UNCHANGED <<audioChunks, isProcessing, processTimeout,
                       conversationHistory, transport, elsewhere, runCount,
                       last>>

(***************************************************************************)
(* The handlers and the steps between awaits.                              *)
(***************************************************************************)
\* index.ts:274  if (processTimeout) clearTimeout(processTimeout);
\* the variable keeps the handle, which can no longer fire
ClearTimeout(t) == IF t = "null" THEN "null" ELSE "stale"

\* a slip that does not arm the timer
SetTimeoutKeeps(t) == t

\* index.ts:280  processTimeout = setTimeout(processAudio, 2000);
SetTimeout(t) == "pending"

\* index.ts:260-286: an inbound {type: 'audio'} message of `len` bytes
OnAudioMessage(len) ==
    /\ Len(audioChunks) < MaxPending
    /\ LET chunks == Append(audioChunks, [len |-> len, echo |-> Replying])
           cleared == ClearTimeout(processTimeout)
       IN  IF TotalBytes(chunks) > HighWaterMark
           THEN /\ processTimeout' = cleared
                /\ ProcessAudioFrom(chunks)
           ELSE /\ processTimeout' = SetTimeout(cleared)
                /\ audioChunks' = chunks
                /\ UNCHANGED <<isProcessing, run, runCount, sent, last>>
    /\ UNCHANGED <<conversationHistory, transport, elsewhere>>

\* the `data` field of an inbound message: absent, or a string whose base64
\* characters decode to `bytes` bytes (0 for a string that holds none)
NoData == [kind |-> "undefined", bytes |-> 0]
StringData(bytes) == [kind |-> "string", bytes |-> bytes]

\* index.ts:265  Buffer.from(message.data, 'base64'): a TypeError for a value
\* that is no string, and for a string the bytes its base64 characters
\* encode, other characters being skipped without an error
BufferFromThrows(data) == data.kind # "string"
BufferFrom(data) == data.bytes

\* inbound messages: text that is not JSON, a JSON object of another type,
\* an audio message without data, audio messages with a data string
Unparseable == [json |-> FALSE, type |-> "", data |-> NoData]
UnknownType == [json |-> TRUE, type |-> "ping", data |-> NoData]
AudioNoData == [json |-> TRUE, type |-> "audio", data |-> NoData]
AudioOf(bytes) == [json |-> TRUE, type |-> "audio", data |-> StringData(bytes)]

Messages ==
    {Unparseable, UnknownType, AudioNoData, AudioOf(0)}
        \cup {AudioOf(len) : len \in FrameBytes}

\* index.ts:260-286: the message handler on any inbound message; JSON.parse
\* (262) and Buffer.from (265) throw into the catch at 283, which only logs
OnMessage(m) ==
    IF ~m.json \/ m.type # "audio" \/ BufferFromThrows(m.data)
    THEN UNCHANGED vars
    ELSE OnAudioMessage(BufferFrom(m.data))

\* index.ts:280: the idle timer elapses and calls processAudio
TimerFire ==
    /\ processTimeout = "pending"
    /\ processTimeout' = "stale"
    /\ ProcessAudioFrom(audioChunks)
    /\ UNCHANGED <<conversationHistory, transport, elsewhere>>

\* a slip that reports the empty transcript as a failure
OnNoSpeechError(log, id) == Send(log, id, ErrorMsg)

\* index.ts:153-157: nothing is sent for an empty transcript
OnNoSpeech(log, id) == log

\* index.ts:151-157: transcribeSpeech returns the empty transcript
SttEmpty(s) ==
    /\ run[s].pc = "stt"
    /\ sent' = OnNoSpeech(sent, run[s].id)
    /\ isProcessing' = FALSE
    /\ Return(s, "empty", 0)
    /\ UNCHANGED <<audioChunks, processTimeout, conversationHistory,
                   transport, elsewhere, runCount>>

\* a slip that forgets the transcript message
OnTranscriptSilent(log, id, text) == log

\* index.ts:160
OnTranscript(log, id, text) == Send(log, id, TranscriptMsg(text))

\* a slip that takes one turn fewer
SliceShort(h, n) ==
    SubSeq(h, IF Len(h) > n - 1 THEN Len(h) - n + 2 ELSE 1, Len(h))

\* index.ts:174  h.slice(-n): the last n elements, all of them when fewer
Slice(h, n) == SubSeq(h, IF Len(h) > n THEN Len(h) - n + 1 ELSE 1, Len(h))

\* a slip that leaves out the loop
DropLeadingNonUserNot(h) == h

\* index.ts:175-177  while (history.length > 0 && history[0].role !== 'user')
RECURSIVE DropLeadingNonUser(_)
DropLeadingNonUser(h) ==
    IF h # <<>> /\ h[1].role # "user" THEN DropLeadingNonUser(Tail(h)) ELSE h

\* index.ts:174-179: the history handed to startChat
ModelHistory(h) == DropLeadingNonUser(Slice(h, HistoryWindow))

\* index.ts:151-182: transcribeSpeech returns text; the transcript message,
\* the history for the request, then the call of sendMessageStream
SttText(s, text) ==
    /\ run[s].pc = "stt"
    /\ sent' = OnTranscript(sent, run[s].id, text)
    /\ run' = [run EXCEPT ![s].pc = "open", ![s].userText = text,
                          ![s].history = ModelHistory(conversationHistory)]
    /\ UNCHANGED <<audioChunks, isProcessing, processTimeout,
                   conversationHistory, transport, elsewhere, runCount, last>>

\* index.ts:151 with 68-71: transcribeSpeech throws
SttFail(s) ==
    /\ run[s].pc = "stt"
    /\ Catch(s)

\* index.ts:182-187: sendMessageStream resolves; the loop awaits a chunk
GenOpen(s) ==
    /\ run[s].pc = "open"
    /\ run' = [run EXCEPT ![s].pc = "stream"]
    /\ UNCHANGED <<audioChunks, isProcessing, processTimeout,
                   conversationHistory, transport, elsewhere, sent, runCount,
                   last>>

\* index.ts:182, 187-188: sendMessageStream, the stream or chunk.text() throws
GenFail(s) ==
    /\ run[s].pc \in {"open", "stream"}
    /\ Catch(s)

\* index.ts:187-216: the stream yields a chunk whose text is `text`; a
\* reply has at most `limit` characters
StreamChunk(s, text, limit) ==
    /\ run[s].pc = "stream"
    /\ Len(run[s].fullResponse) + Len(text) <= limit
    /\ LET buf == run[s].sentenceBuffer \o text
           full == run[s].fullResponse \o text
           sentence == Trim(MatchSentence(buf))
           keep(b) ==
               /\ run' = [run EXCEPT ![s].sentenceBuffer = b,
                                     ![s].fullResponse = full]
               /\ UNCHANGED <<audioChunks, isProcessing, processTimeout,
                              conversationHistory, transport, elsewhere, sent,
                              runCount, last>>
       IN  IF text = <<>> \/ MatchEnd(buf) = 0 THEN keep(buf)
           ELSE IF sentence = <<>> THEN keep(MatchRest(buf))
           ELSE EmitSentence(s, sentence, MatchRest(buf), full, FALSE)

\* index.ts:219-256: the stream ends
StreamEnd(s) ==
    /\ run[s].pc = "stream"
    /\ IF Trim(run[s].sentenceBuffer) # <<>>
       THEN EmitSentence(s, Trim(run[s].sentenceBuffer),
                         run[s].sentenceBuffer, run[s].fullResponse, TRUE)
       ELSE /\ Finalize(s, sent)

\* a slip that drops the synthesized audio
OnAudioSilent(log, id) == log

\* index.ts:212-214 and 232-234
OnAudio(log, id) == Send(log, id, AudioMsg)

\* index.ts:211-214 and 231-242: synthesizeSpeech returns; the audio message
TtsReturn(s) ==
    \/ /\ run[s].pc = "tts"
       /\ sent' = OnAudio(sent, run[s].id)
       /\ run' = [run EXCEPT ![s].pc = "stream"]
       /\ UNCHANGED <<audioChunks, isProcessing, processTimeout,
                      conversationHistory, transport, elsewhere, runCount,
                      last>>
    \/ /\ run[s].pc = "tts_final"
       /\ Finalize(s, OnAudio(sent, run[s].id))

\* index.ts:211, 231 with 89-92, 113-116: synthesizeSpeech throws
TtsFail(s) ==
    /\ run[s].pc \in {"tts", "tts_final"}
    /\ Catch(s)

Next ==
    \/ \E len \in FrameBytes : OnAudioMessage(len)
    \/ TimerFire
    \/ \E s \in Slots : SttEmpty(s)
    \/ \E s \in Slots, text \in Transcripts : SttText(s, text)
    \/ \E s \in Slots : SttFail(s)
    \/ \E s \in Slots : GenOpen(s)
    \/ \E s \in Slots : GenFail(s)
    \/ \E s \in Slots, text \in SeqsUpTo(SpecChars, MaxText) :
           StreamChunk(s, text, MaxText)
    \/ \E s \in Slots : StreamEnd(s)
    \/ \E s \in Slots : TtsReturn(s)
    \/ \E s \in Slots : TtsFail(s)

Spec == Init /\ [][Next]_vars

(***************************************************************************)
(* One reply followed on its own: a run whose blob has just gone to the    *)
(* recognizer, longer replies cut into chunks in every way, every failure, *)
(* and no further inbound audio.                                           *)
(***************************************************************************)
ReplyInit ==
    /\ audioChunks = <<>>
    /\ isProcessing = TRUE
    /\ processTimeout = "stale"
    /\ conversationHistory = <<>>
    /\ run = [s \in Slots |->
                 IF s = 1
                 THEN [IdleRun EXCEPT !.pc = "stt", !.id = 1,
                           !.audioBuffer = <<[len |-> 200000, echo |-> FALSE]>>]
                 ELSE IdleRun]
    /\ sent = <<>>
    /\ runCount = 1
    /\ last = NoRun
    /\ transport = "open"
    /\ ElsewhereIdle

ReplyNext ==
    \/ \E s \in Slots : SttEmpty(s)
    \/ \E s \in Slots, text \in Transcripts : SttText(s, text)
    \/ \E s \in Slots : SttFail(s)
    \/ \E s \in Slots : GenOpen(s)
    \/ \E s \in Slots : GenFail(s)
    \/ \E s \in Slots, text \in SeqsUpTo(Chars, ReplyMaxText) :
           StreamChunk(s, text, ReplyMaxText)
    \/ \E s \in Slots : StreamEnd(s)
    \/ \E s \in Slots : TtsReturn(s)
    \/ \E s \in Slots : TtsFail(s)

ReplySpec == ReplyInit /\ [][ReplyNext]_vars

(***************************************************************************)
(* The segmenter on replies without white space, where trimming changes    *)
(* nothing: one run that has opened its stream, and no failure.            *)
(***************************************************************************)
SegInit ==
    /\ audioChunks = <<>>
    /\ isProcessing = TRUE
    /\ processTimeout = "stale"
    /\ conversationHistory = <<>>
    /\ run = [s \in Slots |->
                 IF s = 1
                 THEN [IdleRun EXCEPT !.pc = "stream", !.id = 1,
                           !.audioBuffer = <<[len |-> 200000, echo |-> FALSE]>>,
                           !.userText = <<"u">>]
                 ELSE IdleRun]
    /\ sent = <<[run |-> 1, msg |-> TranscriptMsg(<<"u">>)]>>
    /\ runCount = 1
    /\ last = NoRun
    /\ transport = "open"
    /\ ElsewhereIdle

SegNext ==
    \/ \E s \in Slots, text \in SeqsUpTo(SpecChars, ReplyMaxText) :
           StreamChunk(s, text, ReplyMaxText)
    \/ \E s \in Slots : StreamEnd(s)
    \/ \E s \in Slots : TtsReturn(s)

SegSpec == SegInit /\ [][SegNext]_vars

(***************************************************************************)
(* One reply and the transport: the run of ReplySpec, the close of the     *)
(* connection at any moment of it, and sends on the closed transport.      *)
(* What clientWs.send does on a closed socket is the library's: it throws  *)
(* or it drops the message, so both are followed (the steps of ReplySpec   *)
(* are the sends that return).                                             *)
(***************************************************************************)
\* index.ts:288-291: the transport closes; only the timer is cleared
OnClose ==
    /\ transport = "open"
    /\ transport' = "closed"
    /\ processTimeout' = ClearTimeout(processTimeout)
    /\ UNCHANGED <<audioChunks, isProcessing, conversationHistory, run, sent,
                   runCount, last, elsewhere>>

\* index.ts:160-253: the run in slot s resumes from its await and its next
\* clientWs.send throws: the send of a message inside the try block (160,
\* 205-207, 214, 226-228, 234, 242) and then the send in the catch block
\* (253), or after an upstream failure the send in the catch block alone.
\* Line 253 is in no try block, so the exception rejects the promise of
\* processAudio, which no caller handles (278, 280), and line 256 is not
\* reached
SendThrows(s) ==
    /\ transport = "closed"
    /\ run[s].pc # "idle"
    /\ Return(s, "escaped", 0)
    /\ UNCHANGED <<audioChunks, isProcessing, processTimeout,
                   conversationHistory, sent, runCount, transport, elsewhere>>

CloseNext ==
    \/ ReplyNext
    \/ OnClose
    \/ \E s \in Slots : SendThrows(s)

CloseSpec == ReplyInit /\ [][CloseNext]_vars

\* the run in slot s resumes from the await it is at: the call it waits for
\* has returned or failed, or the stream has given its next chunk or ended
RunStep(s) ==
    \/ SttEmpty(s)
    \/ \E text \in Transcripts : SttText(s, text)
    \/ SttFail(s)
    \/ GenOpen(s)
    \/ GenFail(s)
    \/ \E text \in SeqsUpTo(Chars, ReplyMaxText) :
           StreamChunk(s, text, ReplyMaxText)
    \/ StreamEnd(s)
    \/ TtsReturn(s)
    \/ TtsFail(s)
    \/ SendThrows(s)

\* the same, no call left waiting for ever
CloseLiveSpec == CloseSpec /\ \A s \in Slots : WF_vars(RunStep(s))

(***************************************************************************)
(* The connection under every kind of inbound message, well-formed or not. *)
(***************************************************************************)
MsgNext ==
    \/ \E m \in Messages : OnMessage(m)
    \/ TimerFire
    \/ \E s \in Slots : SttEmpty(s)
    \/ \E s \in Slots, text \in Transcripts : SttText(s, text)
    \/ \E s \in Slots : SttFail(s)
    \/ \E s \in Slots : GenOpen(s)
    \/ \E s \in Slots : GenFail(s)
    \/ \E s \in Slots, text \in SeqsUpTo(SpecChars, MaxText) :
           StreamChunk(s, text, MaxText)
    \/ \E s \in Slots : StreamEnd(s)
    \/ \E s \in Slots : TtsReturn(s)
    \/ \E s \in Slots : TtsFail(s)

MsgSpec == Init /\ [][MsgNext]_vars

(***************************************************************************)
(* The WAV container on its own: pcm16ToWav (index.ts:294-318) applied to  *)
(* byte sequences of up to MaxPcmLen bytes.  A container is the sequence   *)
(* of its bytes.                                                           *)
(***************************************************************************)
Bytes == {0, 1, 255}

\* buffer.write('RIFF'), 'WAVE', 'fmt ', 'data': the ASCII codes
RIFF == <<82, 73, 70, 70>>
WAVE == <<87, 65, 86, 69>>
FMT == <<102, 109, 116, 32>>
DATA == <<100, 97, 116, 97>>

\* writeUInt32LE: four bytes, least significant first
UInt32LE(v) ==
    <<v % 256, (v \div 256) % 256, (v \div 65536) % 256,
      (v \div 16777216) % 256>>

\* a slip that writes a 16-bit field with the 32-bit call
UInt16LEWide(v) == UInt32LE(v)

\* writeUInt16LE: two bytes, least significant first
UInt16LE(v) == <<v % 256, (v \div 256) % 256>>

\* index.ts:294-318
pcm16ToWav(pcm, sampleRate) ==
    LET numChannels == 1
        bitsPerSample == 16
        byteRate == sampleRate * numChannels * (bitsPerSample \div 8)
        blockAlign == numChannels * (bitsPerSample \div 8)
        dataSize == Len(pcm)
    IN  RIFF \o UInt32LE(36 + dataSize) \o WAVE \o FMT \o UInt32LE(16)
          \o UInt16LE(1) \o UInt16LE(numChannels) \o UInt32LE(sampleRate)
          \o UInt32LE(byteRate) \o UInt16LE(blockAlign)
          \o UInt16LE(bitsPerSample) \o DATA \o UInt32LE(dataSize) \o pcm

\* index.ts:212  buf.slice(n): the bytes from offset n on
SliceFrom(buf, n) == SubSeq(buf, n + 1, Len(buf))

WavInit ==
    /\ audioChunks = <<>>
    /\ isProcessing = FALSE
    /\ processTimeout = "null"
    /\ conversationHistory = <<>>
    /\ run = [s \in Slots |-> IdleRun]
    /\ sent = <<>>
    /\ runCount = 0
    /\ last = NoRun
    /\ transport = "open"
    /\ pcmData \in SeqsUpTo(Bytes, MaxPcmLen)
    /\ wavBuffer = <<>>
    /\ ClientIdle
    /\ ServerIdle
    /\ CaptureIdle
    /\ AgentIdle

\* index.ts:46  const wavBuffer = pcm16ToWav(audioBuffer, 16000);
WrapPcm ==
    /\ wavBuffer = <<>>
    /\ wavBuffer' = pcm16ToWav(pcmData, SampleRate)
    /\ UNCHANGED <<audioChunks, isProcessing, processTimeout,
                   conversationHistory, run, sent, runCount, last, transport,
                   pcmData, clientVars, serverVars, captureVars, agentVars>>

WavNext == WrapPcm

WavSpec == WavInit /\ [][WavNext]_vars

(***************************************************************************)
(* The bot page (part_004, fallback mode) on one connection.  The server   *)
(* is what the page sees of it: for audio the page has sent it starts a    *)
(* run, and the run sends its messages in the order of index.ts:160-253,   *)
(* a transcript, then per sentence a text message and an audio message,    *)
(* then audio_done, or an error message in place of the rest.              *)
(***************************************************************************)
connection ==
    <<audioChunks, isProcessing, processTimeout, conversationHistory, run,
      sent, runCount, last, transport>>

\* what the bot page does not touch
offPage == <<connection, wavVars, serverVars, captureVars, agentVars>>

\* where the reply being received stands after the page has got `msg`
InReplyAfter(msg) ==
    IF msg.type = "audio" THEN TRUE
    ELSE IF msg.type \in {"audio_done", "error"} THEN FALSE
    ELSE inReply

\* the text and audio messages of the first n sentences (index.ts:204-214)
RECURSIVE Sentences(_)
Sentences(n) ==
    IF n = 0 THEN <<>>
    ELSE Sentences(n - 1)
           \o <<IF n = 1 THEN "response" ELSE "response_append", "audio">>

\* index.ts:160-242: the message types of a run that completes
SuccessScript(n) == <<"transcript">> \o Sentences(n) \o <<"audio_done">>

\* index.ts:251-253: a run cut short by a failure, after k of its messages
FailScripts(n) ==
    LET body == <<"transcript">> \o Sentences(n)
    IN  {SubSeq(body, 1, k) \o <<"error">> : k \in 0..Len(body)}

Scripts ==
    UNION {{SuccessScript(n)} \cup FailScripts(n) : n \in 0..MaxSentences}

\* how a start of playback goes: well, or with an exception before the chunk
\* is taken off the queue (part_004:363, the audio context) or after it
\* (part_004:377, createBuffer rejects a chunk without samples)
PlayOutcomes == {"ok", "context", "buffer"}

\* part_004:347-398: playNextAudio called with queue `q` and isSpeaking
\* `speaking`
playNextAudio(q, speaking, how) ==
    IF q = <<>>
    THEN /\ isPlaying' = FALSE
         /\ isSpeaking' = IF audioStreamDone THEN FALSE ELSE speaking
         /\ audioStreamDone' = FALSE
         /\ audioQueue' = q
         /\ source' = 0
         /\ played' = played
    ELSE IF how = "ok"
    THEN /\ isPlaying' = TRUE
         /\ audioQueue' = Tail(q)
         /\ source' = Head(q)
         /\ played' = Append(played, Head(q))
         /\ isSpeaking' = speaking
         /\ UNCHANGED audioStreamDone
    ELSE /\ isPlaying' = FALSE
         /\ isSpeaking' = FALSE
         /\ audioQueue' = IF how = "context" THEN q ELSE Tail(q)
         /\ source' = 0
         /\ UNCHANGED <<audioStreamDone, played>>

\* part_004:260-289
handleServerMessage(msg, how) ==
    IF msg.type = "audio"
    THEN IF ~isPlaying
         THEN playNextAudio(Append(audioQueue, msg.id), TRUE, how)
         ELSE /\ isSpeaking' = TRUE
              /\ audioQueue' = Append(audioQueue, msg.id)
              /\ UNCHANGED <<isPlaying, audioStreamDone, source, played>>
    ELSE IF msg.type = "audio_done"
    THEN /\ audioStreamDone' = TRUE
         /\ UNCHANGED <<isSpeaking, audioQueue, isPlaying, source, played>>
    ELSE IF msg.type = "error"
    THEN /\ isSpeaking' = FALSE
         /\ UNCHANGED <<audioQueue, isPlaying, audioStreamDone, source, played>>
    ELSE UNCHANGED <<pageVars, played>>

\* part_004:329-335: the periodic send of captured audio, which the gate on
\* isSpeaking lets through
Capture ==
    /\ ~isSpeaking
    /\ ~heard
    /\ replies < MaxReplies
    /\ heard' = TRUE
    /\ UNCHANGED <<offPage, pageVars, played, wire, script,
                   replies, chunkCount, inReply>>

\* index.ts:133-151: the server starts a run on the audio it has; the run
\* will send the messages of `sc`
ServerRun(sc) ==
    /\ heard
    /\ script = <<>>
    /\ script' = sc
    /\ heard' = FALSE
    /\ replies' = replies + 1
    /\ UNCHANGED <<offPage, pageVars, played, wire, chunkCount, inReply>>

\* index.ts:160-253: the run sends its next message
ServerSend ==
    /\ script # <<>>
    /\ LET type == Head(script)
           id == IF type = "audio" THEN chunkCount + 1 ELSE 0
       IN  /\ wire' = Append(wire, [type |-> type, id |-> id])
           /\ chunkCount' = IF type = "audio" THEN id ELSE chunkCount
    /\ script' = Tail(script)
    /\ UNCHANGED <<offPage, pageVars, played, heard, replies, inReply>>

\* part_004:243-246: ws.onmessage
Deliver ==
    /\ wire # <<>>
    /\ \E how \in PlayOutcomes : handleServerMessage(Head(wire), how)
    /\ wire' = Tail(wire)
    /\ inReply' = InReplyAfter(Head(wire))
    /\ UNCHANGED <<offPage, script, heard, replies, chunkCount>>

\* part_004:385-388: source.onended
Ended ==
    /\ source # 0
    /\ \E how \in PlayOutcomes : playNextAudio(audioQueue, isSpeaking, how)
    /\ UNCHANGED <<offPage, wire, script, heard, replies, chunkCount,
                   inReply>>

ClientNext ==
    \/ Capture
    \/ \E sc \in Scripts : ServerRun(sc)
    \/ ServerSend
    \/ Deliver
    \/ Ended

ClientSpec == Init /\ [][ClientNext]_vars

\* the same with what the page can count on: a run sends its messages, a
\* message sent is delivered, a chunk that plays comes to its end (nobody
\* has to speak, so Capture is not among them)
ClientLiveSpec ==
    /\ ClientSpec
    /\ WF_vars(ServerSend)
    /\ WF_vars(Deliver)
    /\ WF_vars(Ended)

(***************************************************************************)
(* The bot page's connection to the server and its audio capture           *)
(* (part_004:228-258, 293-343).                                            *)
(***************************************************************************)
offCapture == <<connection, wavVars, clientVars, serverVars, agentVars>>

\* part_004:293-343: startAudioCapture sets up a processor callback and a
\* send loop around a new audioBuffer, or fails to get the microphone
startAudioCapture(pipelines, ok) ==
    IF ok THEN Append(pipelines, <<>>) ELSE pipelines

\* part_004:235-241: ws.onopen
OnOpen(ok) ==
    /\ socket = "connecting"
    /\ socket' = "open"
    /\ isConnected' = TRUE
    /\ capture' = startAudioCapture(capture, ok)
    /\ UNCHANGED <<offCapture, block, uplink, reconnects>>

\* part_004:253-257: ws.onclose, of a socket that was open or never opened
OnSocketClose ==
    /\ socket \in {"connecting", "open"}
    /\ socket' = "closed"
    /\ isConnected' = FALSE
    /\ UNCHANGED <<offCapture, capture, block, uplink, reconnects>>

\* part_004:256, 228-233: the reconnect timer elapses, connectToServer
ConnectToServer ==
    /\ socket = "closed"
    /\ reconnects < MaxReconnects
    /\ socket' = "connecting"
    /\ reconnects' = reconnects + 1
    /\ UNCHANGED <<offCapture, isConnected, capture, block, uplink>>

\* part_004:317-323: the microphone delivers a block of samples and the
\* onaudioprocess callback of every pipeline runs
OnAudioProcess ==
    /\ block < MaxBlocks
    /\ block' = block + 1
    /\ capture' = IF ~isConnected \/ isSpeaking THEN capture
                  ELSE [p \in 1..Len(capture) |-> Append(capture[p], block + 1)]
    /\ UNCHANGED <<offCapture, socket, isConnected, uplink, reconnects>>

\* part_004:328-335: the send loop of pipeline p comes round
SendLoop(p) ==
    /\ capture[p] # <<>>
    /\ isConnected
    /\ ~isSpeaking
    /\ socket = "open"
    /\ uplink' = uplink \o capture[p]
    /\ capture' = [capture EXCEPT ![p] = <<>>]
    /\ UNCHANGED <<offCapture, socket, isConnected, block, reconnects>>

CaptureNext ==
    \/ \E ok \in BOOLEAN : OnOpen(ok)
    \/ OnSocketClose
    \/ ConnectToServer
    \/ OnAudioProcess
    \/ \E p \in 1..Len(capture) : SendLoop(p)

CaptureSpec == Init /\ [][CaptureNext]_vars

(***************************************************************************)
(* The avatar sessions and their keep-alive timers (agent.ts:209,          *)
(* 383-488).  A call is followed from one await to the next.               *)
(***************************************************************************)
offAgent == <<connection, wavVars, clientVars, serverVars, captureVars>>

\* Map.prototype.keys, get, delete and set on the session map
Keys(store) == [k \in 1..Len(store) |-> store[k].id]

Has(store, id) == \E k \in 1..Len(store) : store[k].id = id

Get(store, id) == (CHOOSE k \in 1..Len(store) : store[k].id = id)

Delete(store, id) == SelectSeq(store, LAMBDA e : e.id # id)

Set(store, id, n) ==
    IF Has(store, id)
    THEN [store EXCEPT ![Get(store, id)] = [id |-> id, session |-> n]]
    ELSE Append(store, [id |-> id, session |-> n])

\* agent.ts:448-452: the ids of todo from the first that has a session
RECURSIVE Stored(_, _)
Stored(todo, store) ==
    IF todo = <<>> THEN <<>>
    ELSE IF Has(store, Head(todo)) THEN todo
    ELSE Stored(Tail(todo), store)

\* agent.ts:484-487 and 447-459: the call with record rec goes on to destroy
\* the sessions of the ids in todo, up to the await of the next stopSession:
\* the ids without a session are passed over (451) and the timer of the
\* first with one is cleared (454-456).  With none left destroySession has
\* returned, and initializeSession awaits its requests (394-427)
Destroying(rec, todo, store, timers) ==
    LET rest == Stored(todo, store) IN
    IF rest # <<>>
    THEN [task |-> [rec EXCEPT !.pc = "stopping", !.todo = Tail(rest),
                               !.victim = Head(rest)],
          keepAlive |-> timers \ {store[Get(store, Head(rest))].session}]
    ELSE [task |-> IF rec.op = "initialize"
                   THEN [rec EXCEPT !.pc = "creating", !.todo = <<>>]
                   ELSE NoTask,
          keepAlive |-> timers]

\* agent.ts:383-392: initializeSession(id) is called
InitializeSession(t, id) ==
    /\ task[t].pc = "idle"
    /\ created + Cardinality({u \in Tasks : task[u].op = "initialize"})
           < MaxSessions
    /\ LET next == Destroying([NoTask EXCEPT !.op = "initialize", !.id = id],
                              Keys(sessions), sessions, keepAlive) IN
         /\ task' = [task EXCEPT ![t] = next.task]
         /\ keepAlive' = next.keepAlive
    /\ UNCHANGED <<offAgent, sessions, created>>

\* agent.ts:447-459: destroySession(id) is called from outside
DestroySession(t, id) ==
    /\ task[t].pc = "idle"
    /\ LET next == Destroying([NoTask EXCEPT !.op = "destroy", !.id = id],
                              <<id>>, sessions, keepAlive) IN
         /\ task' = [task EXCEPT ![t] = next.task]
         /\ keepAlive' = next.keepAlive
    /\ UNCHANGED <<offAgent, sessions, created>>

\* agent.ts:458-465: stopSession returns to call t or throws, which is
\* caught; the entry of the id is deleted, and in destroyAllSessions the
\* loop goes on (485-487)
StopReturns(t) ==
    /\ task[t].pc = "stopping"
    /\ sessions' = Delete(sessions, task[t].victim)
    /\ LET next == Destroying(task[t], task[t].todo, sessions', keepAlive) IN
         /\ task' = [task EXCEPT ![t] = next.task]
         /\ keepAlive' = next.keepAlive
    /\ UNCHANGED <<offAgent, created>>

\* agent.ts:394-444: the token, the session and its start have been
\* obtained, the keep-alive timer is set and the session stored; or one of
\* the three requests throws and the call ends
CreateReturns(t, ok) ==
    /\ task[t].pc = "creating"
    /\ created' = IF ok THEN created + 1 ELSE created
    /\ keepAlive' = IF ok THEN keepAlive \cup {created + 1} ELSE keepAlive
    /\ sessions' = IF ok THEN Set(sessions, task[t].id, created + 1)
                   ELSE sessions
    /\ task' = [task EXCEPT ![t] = NoTask]
    /\ UNCHANGED offAgent

AgentNext ==
    \/ \E t \in Tasks, id \in Ids : InitializeSession(t, id)
    \/ \E t \in Tasks, id \in Ids : DestroySession(t, id)
    \/ \E t \in Tasks : StopReturns(t)
    \/ \E t \in Tasks, ok \in BOOLEAN : CreateReturns(t, ok)

AgentSpec == Init /\ [][AgentNext]_vars

(***************************************************************************)
(* The recognizer's credential cache (index.ts:24-40), which the pipelines *)
(* of all connections read and write.  A call is the synchronous test of   *)
(* the cache and, on a miss, two awaits and the synchronous assignment of  *)
(* the cache; calls of different pipelines interleave at the awaits.       *)
(***************************************************************************)
offCache == <<connection, wavVars, clientVars, conn, captureVars, agentVars>>

Token(n) == [kind |-> "token", id |-> n]

\* index.ts:35  tokenResponse.token || ''
EmptyToken == [kind |-> "empty", id |-> 0]

\* a token that passes `cachedAccessToken &&`: a string that is not empty
Truthy(t) == t.kind = "token"

\* index.ts:30  cachedAccessToken && now < tokenExpiresAt
Cached(t, expires, n) == Truthy(t) /\ n < expires

ExpiresAtFromWrite(start, atWrite) == atWrite + ExpiryMs
\* index.ts:37  now + 3500 * 1000, `now` being the local of line 29
ExpiresAt(start, atWrite) == start + ExpiryMs

\* index.ts:28-33: the call up to its first await, or to its return
getAccessToken(c) ==
    /\ call[c].pc = "idle"
    /\ call' = [call EXCEPT ![c] =
                  IF Cached(cachedAccessToken, tokenExpiresAt, now)
                  THEN [pc |-> "returned", now |-> now,
                        token |-> cachedAccessToken, hit |-> TRUE]
                  ELSE [pc |-> "getClient", now |-> now, token |-> NoToken,
                        hit |-> FALSE]]
    /\ UNCHANGED <<offCache, cachedAccessToken, tokenExpiresAt, now, wrote,
                   issued>>

\* index.ts:33  await sttAuth.getClient()
GetClient(c) ==
    /\ call[c].pc = "getClient"
    /\ call' = [call EXCEPT ![c].pc = "getToken"]
    /\ UNCHANGED <<offCache, cachedAccessToken, tokenExpiresAt, now, wrote,
                   issued>>

\* what client.getAccessToken() resolves to: a token not issued before, one
\* the provider has issued already, or a response without a token
ProviderTokens ==
    {Token(n) : n \in 1..issued}
      \cup (IF issued < MaxTokens THEN {Token(issued + 1)} ELSE {})
      \cup {EmptyToken}

\* index.ts:34-39
TokenResponse(c, t) ==
    /\ call[c].pc = "getToken"
    /\ t \in ProviderTokens
    /\ cachedAccessToken' = t
    /\ tokenExpiresAt' = ExpiresAt(call[c].now, now)
    /\ call' = [call EXCEPT ![c].pc = "returned", ![c].token = t]
    /\ wrote' = [by |-> c, now |-> call[c].now, token |-> t]
    /\ issued' = IF t.id > issued THEN t.id ELSE issued
    /\ UNCHANGED <<offCache, now>>

\* index.ts:33-34: either await rejects, and so does the call
ProviderFails(c) ==
    /\ call[c].pc \in {"getClient", "getToken"}
    /\ call' = [call EXCEPT ![c].pc = "threw"]
    /\ UNCHANGED <<offCache, cachedAccessToken, tokenExpiresAt, now, wrote,
                   issued>>

\* index.ts:43: transcribeSpeech has its token, or the exception
Resume(c) ==
    /\ call[c].pc \in {"returned", "threw"}
    /\ call' = [call EXCEPT ![c] = NoCall]
    /\ UNCHANGED <<offCache, cachedAccessToken, tokenExpiresAt, now, wrote,
                   issued>>

\* time passes
Tick ==
    /\ now < MaxClock * TickMs
    /\ now' = now + TickMs
    /\ UNCHANGED <<offCache, cachedAccessToken, tokenExpiresAt, call, wrote,
                   issued>>

TokenNext ==
    \/ \E c \in Conns :
          \/ getAccessToken(c)
          \/ GetClient(c)
          \/ \E t \in ProviderTokens : TokenResponse(c, t)
          \/ ProviderFails(c)
          \/ Resume(c)
    \/ Tick

TokenSpec == Init /\ [][TokenNext]_vars

(***************************************************************************)
(* Several connections in one process.  The callback of index.ts:125 runs  *)
(* once per connection and declares the connection's state in its own      *)
(* scope (128-131, 259); handlers and pipeline reach that state and the    *)
(* module's credential cache, nothing else.  Each connection is the        *)
(* machine above reduced to counts: frames pending, turns of history,      *)
(* messages handed to its socket.                                          *)
(***************************************************************************)
offConn == <<connection, wavVars, clientVars, captureVars, agentVars>>

cache == <<cachedAccessToken, tokenExpiresAt, now, wrote, issued>>

ClosureShared(c) == "A"
\* index.ts:125-131: the scope holding the state of connection c
Closure(c) == c

\* a slip that leaves the timer of the handle running
CancelNot(t, n) == n

\* clearTimeout on handle t, n timers of the connection being pending in the
\* event loop: the timer of a handle that has not elapsed is removed
Cancel(t, n) == IF t = "pending" THEN n - 1 ELSE n

\* index.ts:133-157: processAudio up to its first await, on state st;
\* `short` tells whether the audio taken is under a second
StartRun(st, short) ==
    IF st.isProcessing \/ st.audioChunks = 0
    THEN st
    ELSE IF short
    THEN [st EXCEPT !.audioChunks = 0, !.runs = @ + 1]
    ELSE [st EXCEPT !.audioChunks = 0, !.runs = @ + 1,
                    !.isProcessing = TRUE, !.pc = "stt"]

\* index.ts:260-286: an audio frame arrives on c, `big` when the pending
\* audio then passes the high-water mark; limit.pending bounds the frames
\* pending and limit.runs the runs of the connection
ConnFrame(c, big, limit) ==
    LET st == conn[Closure(c)]
        st1 == [st EXCEPT !.audioChunks = @ + 1]
    IN  /\ st.open
        /\ st.audioChunks < limit.pending
        /\ st.runs < limit.runs
        /\ conn' = [conn EXCEPT ![Closure(c)] =
                      IF big
                      THEN StartRun([st1 EXCEPT
                                        !.processTimeout = ClearTimeout(@),
                                        !.armed = Cancel(st.processTimeout, @)],
                                    FALSE)
                      ELSE [st1 EXCEPT
                               !.processTimeout = SetTimeout(ClearTimeout(@)),
                               !.armed = Cancel(st.processTimeout, @) + 1]]
        /\ UNCHANGED <<offConn, tokenVars>>

\* index.ts:280: the idle timer of c elapses
ConnTimer(c, short) ==
    LET st == conn[Closure(c)]
    IN  /\ st.processTimeout = "pending"
        /\ conn' = [conn EXCEPT ![Closure(c)] =
                      StartRun([st EXCEPT !.processTimeout = "stale",
                                          !.armed = @ - 1],
                               short)]
        /\ UNCHANGED <<offConn, tokenVars>>

\* index.ts:43: the run of c calls getAccessToken
ConnToken(c) ==
    /\ conn[Closure(c)].pc = "stt"
    /\ getAccessToken(c)

\* index.ts:152-160: transcribeSpeech returns, an empty transcript ends the
\* run, any other is sent
ConnTranscribed(c, empty) ==
    LET st == conn[Closure(c)]
    IN  /\ st.pc = "stt"
        /\ call[c].pc = "returned"
        /\ call' = [call EXCEPT ![c] = NoCall]
        /\ conn' = [conn EXCEPT ![Closure(c)] =
                      IF empty
                      THEN [st EXCEPT !.isProcessing = FALSE, !.pc = "idle"]
                      ELSE [st EXCEPT !.sent = @ + 1, !.pc = "reply"]]
        /\ UNCHANGED <<offConn, cache>>

\* index.ts:182-249 in one step: sentence, audio and audio_done are sent,
\* the turn is kept, the audio that came meanwhile and its timer are dropped
ConnReply(c) ==
    LET st == conn[Closure(c)]
    IN  /\ st.pc = "reply"
        /\ conn' = [conn EXCEPT ![Closure(c)] =
                      [st EXCEPT !.sent = @ + 3,
                                 !.conversationHistory = @ + 2,
                                 !.audioChunks = 0,
                                 !.processTimeout = "null",
                                 !.armed = Cancel(st.processTimeout, @),
                                 !.isProcessing = FALSE, !.pc = "idle"]]
        /\ UNCHANGED <<offConn, tokenVars>>

\* index.ts:251-256: recognizer (or its credential), generator or
\* synthesizer fails
ConnFails(c) ==
    LET st == conn[Closure(c)]
    IN  /\ \/ st.pc = "stt" /\ call[c].pc \in {"returned", "threw"}
           \/ st.pc = "reply" /\ call[c].pc = "idle"
        /\ call' = [call EXCEPT ![c] = NoCall]
        /\ conn' = [conn EXCEPT ![Closure(c)] =
                      [st EXCEPT !.sent = @ + 1, !.isProcessing = FALSE,
                                 !.pc = "idle"]]
        /\ UNCHANGED <<offConn, cache>>

\* index.ts:288-291
ConnClose(c) ==
    LET st == conn[Closure(c)]
    IN  /\ st.open
        /\ conn' = [conn EXCEPT ![Closure(c)] =
                      [st EXCEPT !.open = FALSE,
                                 !.processTimeout = ClearTimeout(@),
                                 !.armed = Cancel(st.processTimeout, @)]]
        /\ UNCHANGED <<offConn, tokenVars>>

\* every event of connection c and of its pipeline but the arrival of a
\* frame
ConnStep(c) ==
    \/ \E short \in BOOLEAN : ConnTimer(c, short)
    \/ ConnToken(c)
    \/ GetClient(c)
    \/ \E t \in ProviderTokens : TokenResponse(c, t)
    \/ ProviderFails(c)
    \/ \E empty \in BOOLEAN : ConnTranscribed(c, empty)
    \/ ConnReply(c)
    \/ ConnFails(c)
    \/ ConnClose(c)

\* every event of connection c and of its pipeline
EventOn(c) ==
    \/ \E big \in BOOLEAN :
           ConnFrame(c, big, [pending |-> MaxConnPending, runs |-> MaxConnRuns])
    \/ ConnStep(c)

ConnNext == \E c \in Conns : EventOn(c)

ConnSpec == Init /\ [][ConnNext]_vars

\* one connection on its own, with more frames and more runs
TimerNext ==
    \/ \E big \in BOOLEAN :
           ConnFrame("A", big,
                     [pending |-> MaxTimerPending, runs |-> MaxTimerRuns])
    \/ ConnStep("A")

TimerSpec == Init /\ [][TimerNext]_vars

(***************************************************************************)
(* The history window on its own: a run whose blob is at the recognizer,   *)
(* over every stored history the array's type allows, of up to MaxHistory  *)
(* turns (the histories the running server builds, which alternate user    *)
(* and model turns, are among them).                                       *)
(***************************************************************************)
Roles == {"user", "model"}

Turn(role) ==
    [role |-> role, text |-> IF role = "user" THEN <<"u">> ELSE <<"x">>]

Histories ==
    UNION { { [i \in 1..n |-> Turn(r[i])] : r \in [1..n -> Roles] } :
            n \in 0..MaxHistory }

HistInit ==
    /\ audioChunks = <<>>
    /\ isProcessing = TRUE
    /\ processTimeout = "stale"
    /\ conversationHistory \in Histories
    /\ run = [s \in Slots |->
                 IF s = 1
                 THEN [IdleRun EXCEPT !.pc = "stt", !.id = 1,
                           !.audioBuffer = <<[len |-> 200000, echo |-> FALSE]>>]
                 ELSE IdleRun]
    /\ sent = <<>>
    /\ runCount = 1
    /\ last = NoRun
    /\ transport = "open"
    /\ ElsewhereIdle

HistNext == \E s \in Slots, text \in Transcripts : SttText(s, text)

HistSpec == HistInit /\ [][HistNext]_vars

(***************************************************************************)
(* A long conversation: run after run on one connection, each started by   *)
(* audio that arrived after the previous run ended, until the history is   *)
(* longer than the window of index.ts:174.  A reply is one character, or   *)
(* blank.                                                                  *)
(***************************************************************************)
\* index.ts:260-286 and 133-151: with no run executing a frame of a second
\* or more arrives, its timer elapses and processAudio takes it
NextTurn ==
    /\ Active = {}
    /\ ~isProcessing
    /\ Len(conversationHistory) <= MaxHistory
    /\ isProcessing' = TRUE
    /\ processTimeout' = "stale"
    /\ run' = [run EXCEPT ![1] =
                  [IdleRun EXCEPT !.pc = "stt", !.id = 1,
                       !.audioBuffer = <<[len |-> 200000, echo |-> FALSE]>>]]
    /\ sent' = <<>>
    /\ last' = NoRun
    /\ UNCHANGED <<audioChunks, conversationHistory, runCount, transport,
                   elsewhere>>

TurnNext ==
    \/ NextTurn
    \/ \E s \in Slots : SttEmpty(s)
    \/ \E s \in Slots, text \in Transcripts : SttText(s, text)
    \/ \E s \in Slots : SttFail(s)
    \/ \E s \in Slots : GenOpen(s)
    \/ \E s \in Slots : GenFail(s)
    \/ \E s \in Slots, c \in SpecChars : StreamChunk(s, <<c>>, 1)
    \/ \E s \in Slots : StreamEnd(s)
    \/ \E s \in Slots : TtsReturn(s)
    \/ \E s \in Slots : TtsFail(s)

TurnSpec == ReplyInit /\ [][TurnNext]_vars

(***************************************************************************)
(* What the claims are stated with.                                        *)
(***************************************************************************)
TextTypes == {"response", "response_append"}
ReplyTypes == TextTypes \cup {"audio"}

\* the messages of run `id`, in the order they were sent
MsgsOf(id) ==
    LET mine == SelectSeq(sent, LAMBDA e : e.run = id)
    IN  [i \in 1..Len(mine) |-> mine[i].msg]

OfType(msgs, types) == SelectSeq(msgs, LAMBDA m : m.type \in types)

\* the sentence units of run `id`: the texts of its text messages
UnitsOf(id) ==
    LET texts == OfType(MsgsOf(id), TextTypes)
    IN  [i \in 1..Len(texts) |-> texts[i].text]

RECURSIVE Concat(_)
Concat(units) ==
    IF units = <<>> THEN <<>> ELSE Head(units) \o Concat(Tail(units))

RunIds == {sent[i].run : i \in 1..Len(sent)}

IsPrefix(a, b) == Len(a) <= Len(b) /\ SubSeq(b, 1, Len(a)) = a

NumTerminators(text) == Cardinality({i \in 1..Len(text) : text[i] \in Terminators})

\* the text after the last terminator (the whole text when it has none)
RECURSIVE AfterLastTerminator(_)
AfterLastTerminator(text) ==
    IF MatchEnd(text) = 0 THEN text ELSE AfterLastTerminator(MatchRest(text))

RECURSIVE StripWhiteSpace(_)
StripWhiteSpace(text) ==
    IF text = <<>> THEN <<>>
    ELSE IF Head(text) \in WhiteSpace THEN StripWhiteSpace(Tail(text))
    ELSE <<Head(text)>> \o StripWhiteSpace(Tail(text))

\* `out` is `full` with white-space characters deleted and nothing else changed
RECURSIVE OnlyWhiteSpaceDeleted(_, _)
OnlyWhiteSpaceDeleted(full, out) ==
    IF full = <<>> THEN out = <<>>
    ELSE \/ /\ out # <<>>
            /\ Head(full) = Head(out)
            /\ OnlyWhiteSpaceDeleted(Tail(full), Tail(out))
         \/ /\ Head(full) \in WhiteSpace
            /\ OnlyWhiteSpaceDeleted(Tail(full), out)

Synthesizing == {s \in Active : run[s].pc \in {"tts", "tts_final"}}

\* this step sends audio_done
SendsAudioDone ==
    /\ Len(sent') = Len(sent) + 1
    /\ sent'[Len(sent')].msg.type = "audio_done"

\* this step is a flush trigger: the idle timer elapses, or a frame takes the
\* buffer over the high-water mark
FlushTrigger ==
    \/ TimerFire
    \/ \E len \in FrameBytes :
           /\ OnAudioMessage(len)
           /\ TotalBytes(audioChunks) + len > HighWaterMark

(***************************************************************************)
(* C1.  At most one pipeline run is in flight on the connection, and a     *)
(* flush trigger that fires while a run is in flight starts no run, calls  *)
(* no recognizer, generator or synthesizer (no activation record changes)  *)
(* and moves nothing out of the audio buffer.                              *)
(***************************************************************************)
C1_SingleRunInFlight ==
    [][ /\ Cardinality(Active') <= 1
        /\ (Active # {} /\ FlushTrigger) =>
               /\ run' = run
               /\ runCount' = runCount
               /\ IsPrefix(audioChunks, audioChunks') ]_vars

\* a run is in flight, audio has arrived during it, and the timer that frame
\* armed has elapsed (or the size trigger has fired) without effect
C1_Witness ==
    /\ Active # {}
    /\ audioChunks # <<>>
    /\ processTimeout = "stale"

(***************************************************************************)
(* C2.  When a reply's stream has drained, the number of sentence units    *)
(* sent equals the number of terminators in the whole text, plus one if    *)
(* and only if the text after the last terminator is not blank.            *)
(***************************************************************************)
C2_UnitPerTerminator ==
    last.outcome = "done" =>
        Len(UnitsOf(last.id)) =
            NumTerminators(last.fullResponse)
            + (IF Trim(AfterLastTerminator(last.fullResponse)) # <<>>
               THEN 1 ELSE 0)

(***************************************************************************)
(* C3.  As claimed: when a reply's stream has drained, the sentence units  *)
(* sent, concatenated in order, are the whole text exactly.                *)
(***************************************************************************)
C3_UnitsAreTextExactly ==
    last.outcome = "done" => Concat(UnitsOf(last.id)) = last.fullResponse

(***************************************************************************)
(* C3, amended.  When a reply's stream has drained, the sentence units     *)
(* sent, concatenated in order, are the whole text with white-space        *)
(* characters deleted and no other character dropped, added or moved;      *)
(* every unit is non-empty and has no white space at its edges.            *)
(***************************************************************************)
C3_UnitsAreTextTrimmed ==
    last.outcome = "done" =>
        /\ OnlyWhiteSpaceDeleted(last.fullResponse, Concat(UnitsOf(last.id)))
        /\ \A i \in 1..Len(UnitsOf(last.id)) :
               /\ UnitsOf(last.id)[i] # <<>>
               /\ Trim(UnitsOf(last.id)[i]) = UnitsOf(last.id)[i]

\* a drained reply of two units or more from which trimming removed something
C3_Witness ==
    /\ last.outcome = "done"
    /\ Len(UnitsOf(last.id)) >= 2
    /\ Concat(UnitsOf(last.id)) # last.fullResponse

(***************************************************************************)
(* C4.  Within a reply the sentences are handled one after the other, in   *)
(* the order of the text: at most one synthesizer call is outstanding; the *)
(* text and audio messages of a run alternate text, audio, text, audio;    *)
(* a synthesizer call is outstanding exactly while the last of them is a   *)
(* text message; and the units sent so far are, white space aside, a       *)
(* prefix of the text received so far.                                     *)
(***************************************************************************)
C4_SentencesSequential ==
    /\ Cardinality(Synthesizing) <= 1
    /\ \A id \in RunIds :
           LET reply == OfType(MsgsOf(id), ReplyTypes)
           IN  \A i \in 1..Len(reply) :
                   (reply[i].type = "audio") <=> (i % 2 = 0)
    /\ \A s \in Active :
           /\ (s \in Synthesizing) <=>
                  (Len(OfType(MsgsOf(run[s].id), ReplyTypes)) % 2 = 1)
           /\ IsPrefix(StripWhiteSpace(Concat(UnitsOf(run[s].id))),
                       StripWhiteSpace(run[s].fullResponse))

\* the second sentence of a reply is being synthesized, the audio of the first
\* having been sent
C4_Witness ==
    \E s \in Synthesizing :
        /\ run[s].sentenceIndex = 2
        /\ Len(OfType(MsgsOf(run[s].id), {"audio"})) = 1

(***************************************************************************)
(* C5.  Of the text messages of a run the first, and only the first, is a  *)
(* `response`; every later one, the trailing partial unit included, is a   *)
(* `response_append`; and a run has sent one text message per sentence     *)
(* unit it has counted, so the `response` carries the unit counted first.  *)
(***************************************************************************)
C5_OneResponseThenAppends ==
    /\ \A id \in RunIds :
           LET texts == OfType(MsgsOf(id), TextTypes)
           IN  \A i \in 1..Len(texts) :
                   (texts[i].type = "response") <=> (i = 1)
    /\ \A s \in Active : Len(UnitsOf(run[s].id)) = run[s].sentenceIndex

\* a drained reply of a `response` and a `response_append`, the latter for a
\* trailing unit without terminator
C5_Witness ==
    /\ last.outcome = "done"
    /\ Len(UnitsOf(last.id)) = 2
    /\ last.fullResponse[Len(last.fullResponse)] \notin Terminators \cup WhiteSpace

(***************************************************************************)
(* C6.  As claimed: every run that sent a transcript sends `audio_done`    *)
(* exactly once, as its last message.                                      *)
(***************************************************************************)
C6_AudioDoneEveryCycle ==
    (last.id # 0 /\ last.userText # <<>>) =>
        LET msgs == MsgsOf(last.id)
        IN  /\ Len(OfType(msgs, {"audio_done"})) = 1
            /\ msgs[Len(msgs)].type = "audio_done"

(***************************************************************************)
(* C6, amended.  A run sends `audio_done` at most once, and never while    *)
(* it is still running; a run whose recognition, generation and synthesis  *)
(* all succeeded sends it exactly once, as its last message and, when the  *)
(* reply had a sentence unit, right after the audio message of the last    *)
(* unit; a run that ended in an upstream failure sends no `audio_done`     *)
(* and ends with `error`.                                                  *)
(***************************************************************************)
C6_AudioDoneOnSuccess ==
    /\ \A id \in RunIds : Len(OfType(MsgsOf(id), {"audio_done"})) <= 1
    /\ \A s \in Active : OfType(MsgsOf(run[s].id), {"audio_done"}) = <<>>
    /\ last.outcome = "done" =>
           LET msgs == MsgsOf(last.id)
           IN  /\ msgs[Len(msgs)].type = "audio_done"
               /\ UnitsOf(last.id) # <<>> => msgs[Len(msgs) - 1].type = "audio"
               /\ Len(OfType(msgs, {"audio"})) = Len(UnitsOf(last.id))
    /\ last.outcome = "error" =>
           LET msgs == MsgsOf(last.id)
           IN  /\ OfType(msgs, {"audio_done"}) = <<>>
               /\ msgs[Len(msgs)].type = "error"

\* a drained reply of two units: audio_done right after the second audio
C6_Witness ==
    /\ last.outcome = "done"
    /\ Len(UnitsOf(last.id)) = 2
    /\ Len(OfType(MsgsOf(last.id), {"audio"})) = 2

(***************************************************************************)
(* C7.  As claimed: every run that sent a transcript sends at least one    *)
(* `response`, and as many `audio` messages as text messages.              *)
(***************************************************************************)
C7_AudioPerSentence ==
    (last.id # 0 /\ last.userText # <<>>) =>
        LET msgs == MsgsOf(last.id)
        IN  /\ OfType(msgs, {"response"}) # <<>>
            /\ Len(OfType(msgs, {"audio"})) = Len(OfType(msgs, TextTypes))

(***************************************************************************)
(* C7, amended.  A run that ends with `audio_done` has sent as many        *)
(* `audio` messages as text messages, and at least one `response` when the *)
(* model's text was not blank; a run that is still going on, or that ended *)
(* in an upstream failure, has sent as many `audio` messages as text       *)
(* messages or one fewer.                                                  *)
(***************************************************************************)
C7_AudioPerSentenceOnSuccess ==
    /\ last.outcome = "done" =>
           LET msgs == MsgsOf(last.id)
           IN  /\ Len(OfType(msgs, {"audio"})) = Len(OfType(msgs, TextTypes))
               /\ Trim(last.fullResponse) # <<>> =>
                      OfType(msgs, {"response"}) # <<>>
    /\ \A id \in RunIds :
           LET msgs == MsgsOf(id)
               gap == Len(OfType(msgs, TextTypes)) - Len(OfType(msgs, {"audio"}))
           IN  /\ Len(OfType(msgs, {"audio"})) <= Len(OfType(msgs, TextTypes))
               /\ gap <= 1

\* a drained reply of three sentence units, each with its audio
C7_Witness ==
    /\ last.outcome = "done"
    /\ Len(UnitsOf(last.id)) = 3
    /\ Len(OfType(MsgsOf(last.id), {"audio"})) = 3

(***************************************************************************)
(* C8.  A run whose recognition gave a non-empty transcript has sent, as   *)
(* its first message, one `transcript` message of speaker `user` with that *)
(* text, and no other transcript message; this holds while the run goes    *)
(* on and after it has ended, in `audio_done` or in `error`.  No message   *)
(* of a run other than `error` is sent without that transcript first.      *)
(***************************************************************************)
C8_TranscriptFirst ==
    /\ \A s \in Active :
           run[s].userText # <<>> =>
               /\ MsgsOf(run[s].id) # <<>>
               /\ MsgsOf(run[s].id)[1] = TranscriptMsg(run[s].userText)
    /\ (last.id # 0 /\ last.userText # <<>>) =>
           /\ MsgsOf(last.id) # <<>>
           /\ MsgsOf(last.id)[1] = TranscriptMsg(last.userText)
    /\ \A id \in RunIds :
           LET msgs == MsgsOf(id)
           IN  /\ \A i \in 1..Len(msgs) :
                      msgs[i].type = "transcript" =>
                          i = 1 /\ msgs[i].speaker = "user"
               /\ \A i \in 1..Len(msgs) :
                      msgs[i].type # "error" => msgs[1].type = "transcript"

\* a run that failed after its first sentence's text: the transcript stays sent
C8_Witness ==
    /\ last.outcome = "error"
    /\ last.userText # <<>>
    /\ OfType(MsgsOf(last.id), {"response"}) # <<>>

(***************************************************************************)
(* C9.  No frame that arrived while a reply was being produced is in the   *)
(* blob a run has passed to the recognizer.                                *)
(***************************************************************************)
C9_EchoNeverRecognized ==
    \A s \in Active :
        \A i \in 1..Len(run[s].audioBuffer) : ~run[s].audioBuffer[i].echo

(***************************************************************************)
(* C10.  The step that completes a reply cycle (the one that sends         *)
(* `audio_done`) leaves the audio buffer empty and no idle timer pending,  *)
(* whatever arrived during the cycle.                                      *)
(***************************************************************************)
C10_CleanAfterCycle ==
    [][ SendsAudioDone =>
            /\ audioChunks' = <<>>
            /\ processTimeout' # "pending" ]_vars

\* a cycle has completed during which two frames or more had arrived
C10_Witness ==
    /\ last.outcome = "done"
    /\ last.dropped >= 2
    /\ audioChunks = <<>>
    /\ processTimeout = "null"

(***************************************************************************)
(* C11.  While a pipeline run is executing, no idle timer is armed: a      *)
(* timer armed before the run has fired or been cancelled by the time the  *)
(* run starts, so a pending timer during a run is one a frame armed        *)
(* during it.                                                              *)
(***************************************************************************)
C11_NoTimerArmedDuringRun ==
    Active # {} => processTimeout # "pending"

C13_SizeTriggerFlushesAtOnce ==
    [][ \A len \in FrameBytes :
            ( /\ OnAudioMessage(len)
              /\ TotalBytes(audioChunks) + len > HighWaterMark
              /\ Active = {} ) =>
                /\ audioChunks' = <<>>
                /\ processTimeout' # "pending"
                /\ \E s \in Slots :
                       /\ run'[s].pc = "stt"
                       /\ Len(run'[s].audioBuffer) = Len(audioChunks) + 1
                       /\ TotalBytes(run'[s].audioBuffer) =
                              TotalBytes(audioChunks) + len ]_vars

\* a blob over the high-water mark is at the recognizer, the buffer is empty
\* and the timer its first frame had armed is cancelled
C13_Witness ==
    /\ audioChunks = <<>>
    /\ processTimeout = "stale"
    /\ \E s \in Active :
           /\ run[s].pc = "stt"
           /\ TotalBytes(run[s].audioBuffer) > HighWaterMark

(***************************************************************************)
(* C14.  A flush whose blob is shorter than 16000 bytes discards it: the   *)
(* buffer is emptied, no run starts (the recognizer is not called), no     *)
(* message is sent, the history is unchanged and the busy flag is left     *)
(* released.  (A frame that crosses the high-water mark never flushes a    *)
(* short blob, so the flush is the idle timer's.)                          *)
(***************************************************************************)
C14_ShortBlobDiscarded ==
    [][ ( /\ TimerFire
          /\ ~isProcessing
          /\ audioChunks # <<>>
          /\ TotalBytes(audioChunks) < MinAudioBytes ) =>
            /\ audioChunks' = <<>>
            /\ run' = run
            /\ runCount' = runCount
            /\ sent' = sent
            /\ conversationHistory' = conversationHistory
            /\ isProcessing' = FALSE ]_vars

\* a short blob has been discarded: the timer has elapsed, the buffer is
\* empty and no run has ever started
C14_Witness ==
    /\ processTimeout = "stale"
    /\ audioChunks = <<>>
    /\ runCount = 0
    /\ Active = {}
    /\ ~isProcessing
    /\ sent = <<>>

(***************************************************************************)
(* C15.  The history handed to the generator is the longest tail of the    *)
(* stored history that has at most 10 turns and is empty or begins with a  *)
(* user turn: it is a tail of the stored history (the most recent turns,   *)
(* in order), it has at most 10 turns, a non-empty one begins with a user  *)
(* turn, and every turn of the last 10 left out of it is a leading         *)
(* non-user turn (every longer tail within the window begins with one).    *)
(***************************************************************************)
C15_ModelHistoryWindow ==
    \A s \in Slots :
        run[s].pc = "open" =>
            LET h == run[s].history
                c == conversationHistory
            IN  /\ Len(h) <= HistoryWindow
                /\ Len(h) <= Len(c)
                /\ SubSeq(c, Len(c) - Len(h) + 1, Len(c)) = h
                /\ h # <<>> => h[1].role = "user"
                /\ \A k \in (Len(h) + 1)..HistoryWindow :
                       k <= Len(c) => c[Len(c) - k + 1].role # "user"

\* a stored history of more than 10 turns whose tenth turn from the end is
\* a model turn: the request's history is shorter than 10 and not empty
C15_Witness ==
    \E s \in Slots :
        /\ run[s].pc = "open"
        /\ Len(conversationHistory) > HistoryWindow
        /\ conversationHistory[Len(conversationHistory) - 9].role = "model"
        /\ run[s].history # <<>>
        /\ Len(run[s].history) < HistoryWindow

\* this step ends the run in slot s, whose stream has drained, normally
Drains(s) ==
    /\ run[s].pc \in {"stream", "tts_final"}
    /\ run'[s].pc = "idle"
    /\ last'.id = run[s].id
    /\ last'.outcome = "done"

(***************************************************************************)
(* C16, as stated.  The history changes only in the step that ends a run   *)
(* whose stream drained, and then by appending the user turn with the      *)
(* transcript and one assistant turn with the full response.               *)
(***************************************************************************)
C16_AppendsFullResponse ==
    [][ conversationHistory' # conversationHistory =>
            \E s \in Slots :
                /\ Drains(s)
                /\ conversationHistory' = conversationHistory \o
                       << [role |-> "user", text |-> run[s].userText],
                          [role |-> "model", text |-> run[s].fullResponse] >>
      ]_vars

(***************************************************************************)
(* C16, amended.  The history changes only in the step that ends a run     *)
(* whose stream drained without error, and then by appending the user turn *)
(* with the transcript and one assistant turn with the full response, or   *)
(* with the fixed apology when the full response is empty; a step that     *)
(* ends a run as empty transcript or failure, or discards a short blob,    *)
(* leaves the history unchanged.                                           *)
(***************************************************************************)
C16_HistoryAppendOnDrain ==
    [][ /\ conversationHistory' # conversationHistory =>
               \E s \in Slots :
                   /\ Drains(s)
                   /\ conversationHistory' = conversationHistory \o
                          << [role |-> "user", text |-> run[s].userText],
                             [role |-> "model",
                              text |-> IF run[s].fullResponse = <<>>
                                       THEN Apology
                                       ELSE run[s].fullResponse] >>
        /\ (last' # last /\ last'.outcome \in {"empty", "error"}) =>
               conversationHistory' = conversationHistory
        /\ (TimerFire /\ run' = run) =>
               conversationHistory' = conversationHistory ]_vars

\* a first run has committed its two turns, a reply with text, and a second
\* run has failed and left them as they were
C16_Witness ==
    /\ Len(conversationHistory) = 2
    /\ conversationHistory[1].role = "user"
    /\ conversationHistory[2].role = "model"
    /\ conversationHistory[2].text # Apology
    /\ last.id = 2
    /\ last.outcome = "error"

(***************************************************************************)
(* C17.  The step in which recognition returns the empty transcript ends   *)
(* the run there: the run goes from waiting for the recognizer straight to *)
(* returned (it never calls the generator or the synthesizer), no message  *)
(* is sent in that step and none was sent by the run before, the history   *)
(* is unchanged and the busy flag is released.                             *)
(***************************************************************************)
C17_EmptyTranscriptStops ==
    [][ \A s \in Slots :
            ( /\ run[s].pc = "stt"
              /\ last'.id = run[s].id
              /\ last'.outcome = "empty" ) =>
                /\ run'[s] = IdleRun
                /\ sent' = sent
                /\ MsgsOf(run[s].id) = <<>>
                /\ conversationHistory' = conversationHistory
                /\ isProcessing' = FALSE ]_vars

\* the second run of the session has ended on an empty transcript, with the
\* first run's two turns still the whole history
C17_Witness ==
    /\ last.id = 2
    /\ last.outcome = "empty"
    /\ Len(conversationHistory) = 2
    /\ MsgsOf(2) = <<>>
    /\ ~isProcessing

(***************************************************************************)
(* C18.  The step in which a run ends on an upstream failure releases the  *)
(* busy flag, and from then on, until a run starts, a flush trigger whose  *)
(* blob has at least 16000 bytes starts a fresh run: the blob goes to the  *)
(* recognizer under a new run id and the busy flag is set.                 *)
(***************************************************************************)
C18_UsableAfterFailure ==
    [][ /\ (last' # last /\ last'.outcome = "error") => isProcessing' = FALSE
        /\ ( /\ last.outcome = "error"
             /\ \/ TimerFire /\ TotalBytes(audioChunks) >= MinAudioBytes
                \/ \E len \in FrameBytes :
                       /\ OnAudioMessage(len)
                       /\ TotalBytes(audioChunks) + len > HighWaterMark ) =>
               /\ isProcessing'
               /\ audioChunks' = <<>>
               /\ \E s \in Slots :
                      /\ run[s].pc = "idle"
                      /\ run'[s].pc = "stt"
                      /\ run'[s].id = runCount + 1
                      /\ TotalBytes(run'[s].audioBuffer) >= MinAudioBytes
      ]_vars

\* the first run failed in the middle of its reply (a frame that arrived
\* during the reply is still there), and the second run is at the recognizer
C18_Witness ==
    \E s \in Active :
        /\ run[s].id = 2
        /\ run[s].pc = "stt"
        /\ \E i \in 1..Len(run[s].audioBuffer) : run[s].audioBuffer[i].echo
        /\ isProcessing
        /\ conversationHistory = <<>>

C20_FailureAbortsReply ==
    [][ /\ \A s \in Slots :
               ( /\ run[s].pc \in {"open", "stream", "tts", "tts_final"}
                 /\ last'.id = run[s].id
                 /\ last'.outcome = "error" ) =>
                   LET before == MsgsOf(run[s].id)
                   IN  /\ sent' = Append(sent, [run |-> run[s].id,
                                               msg |-> ErrorMsg])
                       /\ OfType(before, {"error", "audio_done"}) = <<>>
                       /\ before[1].type = "transcript"
                       /\ run'[s] = IdleRun
                       /\ Active' = {}
        /\ last.outcome = "error" =>
               /\ sent' = sent
               /\ run' = run
               /\ runCount' = runCount ]_vars

\* the synthesizer failed on the second sentence: the first sentence's text
\* and audio and the second's text were sent, then the one error message
C20_Witness ==
    /\ last.outcome = "error"
    /\ Active = {}
    /\ LET msgs == MsgsOf(last.id)
       IN  /\ Len(msgs) = 5
           /\ msgs[2].type = "response"
           /\ msgs[3].type = "audio"
           /\ msgs[4].type = "response_append"
           /\ msgs[5].type = "error"

(***************************************************************************)
(* C21.  The handling of an inbound message that is no JSON, has an        *)
(* unknown type, or is an audio message without decodable data (no data    *)
(* field, or a data string that holds no base64) leaves the pending audio  *)
(* buffer, the idle timer, the busy flag and the history unchanged, sends  *)
(* nothing and leaves the transport open.                                  *)
(***************************************************************************)
C21_MalformedMessageIgnored ==
    [][ \A m \in {Unparseable, UnknownType, AudioNoData, AudioOf(0)} :
            OnMessage(m) =>
                /\ UNCHANGED <<audioChunks, processTimeout, isProcessing,
                               conversationHistory, sent>>
                /\ transport' = "open" ]_vars

(***************************************************************************)
(* C22.  The close of the transport leaves no idle timer armed and the     *)
(* pending audio buffer empty, and once the transport is closed no timer   *)
(* is armed and no run begins a call of the recognizer, the generator or   *)
(* the synthesizer.                                                        *)
(***************************************************************************)
C22_TornDownAfterClose ==
    [][ /\ OnClose =>
               /\ processTimeout' # "pending"
               /\ audioChunks' = <<>>
        /\ transport = "closed" =>
               /\ processTimeout' # "pending"
               /\ \A s \in Slots :
                      run'[s].pc \in {"stt", "open", "tts", "tts_final"} =>
                          run'[s].pc = run[s].pc ]_vars

(***************************************************************************)
(* C23.  A run whose stream ended having yielded no text at all has        *)
(* committed the user turn and an assistant turn whose text is the fixed   *)
(* apology, and its messages are the transcript and `audio_done` and       *)
(* nothing else: no `response`, `response_append` or `audio` (no sentence  *)
(* was emitted, so the synthesizer was never called).                      *)
(***************************************************************************)
C23_EmptyReplyCommitsApology ==
    (last.outcome = "done" /\ last.fullResponse = <<>>) =>
        LET n == Len(conversationHistory)
        IN  /\ n >= 2
            /\ conversationHistory[n - 1] =
                   [role |-> "user", text |-> last.userText]
            /\ conversationHistory[n] = [role |-> "model", text |-> Apology]
            /\ MsgsOf(last.id) = <<TranscriptMsg(last.userText), AudioDoneMsg>>
            /\ OfType(MsgsOf(last.id), ReplyTypes) = <<>>

\* a run has completed on a stream that yielded nothing
C23_Witness ==
    /\ last.outcome = "done"
    /\ last.fullResponse = <<>>
    /\ Len(conversationHistory) = 2
    /\ conversationHistory[2].text = Apology

(***************************************************************************)
(* C24.  For every PCM byte sequence p, the container pcm16ToWav builds    *)
(* from p is exactly 44 bytes longer than p, and stripping its first 44    *)
(* bytes gives back p, byte for byte.                                      *)
(***************************************************************************)
C24_WavRoundTrip ==
    wavBuffer # <<>> =>
        /\ Len(wavBuffer) = Len(pcmData) + WavHeaderBytes
        /\ SliceFrom(wavBuffer, WavHeaderBytes) = pcmData
        /\ \A i \in 1..Len(wavBuffer) : wavBuffer[i] \in 0..255

\* a container built from a sequence of several bytes, high and low
C24_Witness ==
    /\ wavBuffer # <<>>
    /\ Len(pcmData) >= 3
    /\ pcmData[1] = 255
    /\ pcmData[2] = 0
    /\ SubSeq(wavBuffer, 1, 4) = RIFF

(***************************************************************************)
(* C25.  Whenever the page has received `audio_done`, whether before or    *)
(* after the queued chunks finished playing, isSpeaking eventually becomes *)
(* false, so that capture resumes.                                         *)
(***************************************************************************)
C25_AudioDoneReenablesCapture == audioStreamDone ~> ~isSpeaking

(***************************************************************************)
(* C26.  The page plays the audio chunks in the order of their arrival,    *)
(* none twice and none skipped (chunks are numbered as the server sends    *)
(* them, so the chunks played are 1, 2, 3, ...); a chunk that arrives      *)
(* while nothing plays starts at once, without waiting for `audio_done`;   *)
(* and a chunk starts while another plays only at that one's end.          *)
(***************************************************************************)
StartsChunk == played' # played

ArrivesIdle ==
    /\ wire # <<>>
    /\ Head(wire).type = "audio"
    /\ wire' = Tail(wire)
    /\ source = 0

C26_PlaysInArrivalOrder ==
    [][ /\ \A i \in 1..Len(played') : played'[i] = i
        /\ ArrivesIdle =>
               /\ StartsChunk
               /\ source' = Head(audioQueue \o <<Head(wire).id>>)
        /\ (StartsChunk /\ source # 0) => UNCHANGED wire ]_vars

(***************************************************************************)
(* C27.  isSpeaking is true from the first message of a reply, text or     *)
(* audio, until the reply has been played to its end: it is true once a    *)
(* text or audio message of a reply has been received, and as long as a    *)
(* chunk plays or waits in the queue; and while it is true the page hands  *)
(* no captured audio to the server, which would append it to the pending   *)
(* audio of the connection.                                                *)
(***************************************************************************)
ReplyTypesOnPage == {"response", "response_append", "audio"}

ReceivesReply ==
    /\ wire # <<>>
    /\ wire' = Tail(wire)
    /\ Head(wire).type \in ReplyTypesOnPage

C27_SpeakingWhileReplying ==
    [][ /\ ReceivesReply => isSpeaking'
        /\ (source' # 0 \/ audioQueue' # <<>>) => isSpeaking'
        /\ (heard' /\ ~heard) => ~isSpeaking ]_vars

(***************************************************************************)
(* C28.  A call of getAccessToken goes to the credential provider only     *)
(* when the cache holds no non-empty token or the time is at or past the   *)
(* cached expiry; otherwise it returns the cached token and leaves the     *)
(* cache alone.  However the refreshes of several pipelines interleave,    *)
(* the cache holds the token obtained by the refresh that assigned it      *)
(* last, with an expiry no later than 3500 s after that refresh began.     *)
(***************************************************************************)
Enters(c) == call[c].pc = "idle" /\ call'[c].pc # "idle"

MayUseCache == cachedAccessToken.kind = "token" /\ now < tokenExpiresAt

C29_ConnectionsIndependent ==
    [][ \A c \in Conns : \A d \in Conns \ {c} :
            EventOn(c) => conn'[d] = conn[d] ]_vars

\* A has completed a reply and has closed, while B is in a run that was
\* served the token A's refresh put in the cache
C29_Witness ==
    /\ conn["A"].conversationHistory = 2
    /\ conn["A"].sent = 4
    /\ ~conn["A"].open
    /\ conn["B"].pc = "stt"
    /\ conn["B"].isProcessing
    /\ conn["B"].open
    /\ conn["B"].sent = 0
    /\ call["B"].pc = "returned"
    /\ call["B"].hit
    /\ wrote.by = "A"

(***************************************************************************)
(* C30.  When no recognizer, generator or synthesizer call is left waiting *)
(* for ever and the stream is finite, every run that was started comes to  *)
(* its end, and at its end the busy flag is released.                      *)
(***************************************************************************)
Ends(s) == run[s].pc # "idle" /\ run'[s].pc = "idle"

C31_PendingAudioHasTimer ==
    (Active = {} /\ ~isProcessing /\ audioChunks # <<>>) =>
        processTimeout = "pending"

(***************************************************************************)
(* C32.  A run that has sent a `transcript` ends with exactly one terminal *)
(* message, `audio_done` or `error`, as its last message, and sends none   *)
(* before it ends; and the messages of one run are not interleaved with    *)
(* those of another run of the connection.                                 *)
(***************************************************************************)
TerminalTypes == {"audio_done", "error"}

C32_OneTerminalMessage ==
    /\ \A s \in Active : OfType(MsgsOf(run[s].id), TerminalTypes) = <<>>
    /\ (last.id # 0 /\ OfType(MsgsOf(last.id), {"transcript"}) # <<>>) =>
           LET msgs == MsgsOf(last.id)
           IN  /\ Len(OfType(msgs, TerminalTypes)) = 1
               /\ msgs[Len(msgs)].type \in TerminalTypes
    /\ \A i \in 1..Len(sent) : \A k \in i..Len(sent) :
           sent[i].run = sent[k].run =>
               \A j \in i..k : sent[j].run = sent[i].run

\* a run whose synthesizer failed: transcript, the sentence, then `error`
C32_Witness ==
    /\ last.outcome = "error"
    /\ Len(MsgsOf(last.id)) = 3
    /\ MsgsOf(last.id)[1].type = "transcript"
    /\ MsgsOf(last.id)[2].type = "response"
    /\ MsgsOf(last.id)[3].type = "error"

(***************************************************************************)
(* C33.  The history of a connection always has even length and            *)
(* alternates user, model, user, model, ... from a user turn on; so the    *)
(* last ten turns taken for a request begin with a user turn, and the      *)
(* history handed to the model is those turns, none dropped.               *)
(***************************************************************************)
Alternates(h) ==
    /\ Len(h) % 2 = 0
    /\ \A i \in 1..Len(h) :
           h[i].role = IF i % 2 = 1 THEN "user" ELSE "model"

LastTurns(h, n) == [i \in 1..(IF Len(h) > n THEN n ELSE Len(h)) |->
                       h[i + (IF Len(h) > n THEN Len(h) - n ELSE 0)]]

C33_HistoryAlternates ==
    /\ Alternates(conversationHistory)
    /\ Alternates(LastTurns(conversationHistory, HistoryWindow))
    /\ \A s \in Active :
           run[s].pc # "stt" =>
               run[s].history = LastTurns(conversationHistory, HistoryWindow)

\* the seventh run of a conversation, its request made with turns 3 to 12
C33_Witness ==
    /\ Len(conversationHistory) = 12
    /\ \E s \in Active :
           /\ run[s].pc = "open"
           /\ Len(run[s].history) = 10
           /\ run[s].history[1] = conversationHistory[3]
           /\ run[s].history[1].role = "user"

(***************************************************************************)
(* C34.  A connection never has more than one idle timer pending: a timer  *)
(* is armed only after the one armed before has been cancelled or has      *)
(* elapsed, the pending timer is the one processTimeout holds, and after   *)
(* the connection has closed none is pending.                              *)
(***************************************************************************)
C34_AtMostOneTimer ==
    \A c \in Conns :
        /\ conn[c].armed <= 1
        /\ conn[c].armed = 1 <=> conn[c].processTimeout = "pending"
        /\ ~conn[c].open => conn[c].armed = 0

\* the timer armed for a first frame was cancelled and armed again for a
\* second, and the connection closed before it elapsed
C34_Witness ==
    /\ ~conn["A"].open
    /\ conn["A"].audioChunks = 2
    /\ conn["A"].runs = 0
    /\ conn["A"].processTimeout = "stale"
    /\ conn["A"].armed = 0

(***************************************************************************)
(* C35.  The page never re-enables capture in the middle of a reply: from  *)
(* the first `audio` message of a reply until that reply's `audio_done`    *)
(* has been received isSpeaking is true, also while the queue is empty     *)
(* between two sentences and whatever `audio_done` an earlier reply left   *)
(* behind.                                                                 *)
(***************************************************************************)
C35_SpeakingUntilOwnAudioDone == inReply => isSpeaking

(***************************************************************************)
(* C36.  On the page isSpeaking is false, and capture enabled, only when   *)
(* no chunk is playing and none waits in the queue, whatever message was   *)
(* received last and also after a failure of playback.                     *)
(***************************************************************************)
C36_CaptureOnlyWhenSilent ==
    ~isSpeaking => (source = 0 /\ audioQueue = <<>>)

(***************************************************************************)
(* C37.  The page has at most one capture pipeline, however often its      *)
(* socket closes and is opened again, and so sends no block of samples to  *)
(* the server more than once.                                              *)
(***************************************************************************)
C37_OneCapturePipeline ==
    /\ Len(capture) <= 1
    /\ \A i \in 1..Len(uplink) : \A j \in 1..Len(uplink) :
           uplink[i] = uplink[j] => i = j

(***************************************************************************)
(* C38.  The session map holds at most one session, whatever calls of      *)
(* initializeSession and destroySession have been made and however they    *)
(* overlap.                                                                *)
(***************************************************************************)
C38_AtMostOneSession == Len(sessions) <= 1

(***************************************************************************)
(* C39.  Every keep-alive timer that is running is the timer of a session  *)
(* in the session map.                                                     *)
(***************************************************************************)
C39_TimersBelongToStored ==
    \A n \in keepAlive : \E k \in 1..Len(sessions) : sessions[k].session = n

=============================================================================
